---- MODULE Spec2Model ----
(***************************************************************************)
(* Pametni-Urnik: the user profile service (userService.js), the login     *)
(* handler and the protected course handlers, as a state machine.          *)
(***************************************************************************)
EXTENDS Integers, Sequences, FiniteSets, TLC

VARIABLES
    users,      \* the 'users' collection: document key -> document snapshot
    pc,         \* per call slot: "idle" | "get" | "write" | "done"
    op,         \* per call slot: the userService function being run
    uid,        \* per call slot: the uid argument
    arg,        \* per call slot: the updates object (updateUser)
    email,      \* per call slot: the email argument (verifyUser)
    userDoc,    \* per call slot: the snapshot returned by userRef.get()
    result,     \* per call slot: what the call returned or threw
    now,        \* the clock, in seconds
    cookie,     \* per client: the 'token' cookie the login response set
    loginReq,   \* the last request the login handler answered
    loginResp,  \* its response
    hpc,        \* the course request in flight: "idle" | "checkJwt" | "read" | "done"
    hreq,       \* the course request in flight
    hcalls,     \* the calls its handler has made to checkJwt and to the store
    hresp,      \* its response
    selection,  \* useBranches: the (facultyId, programId, selectedYear) last rendered
    branches,   \* useBranches: the branches state
    loading,    \* useBranches: the loading state
    error,      \* useBranches: the error state
    runs        \* useBranches: the runs of the effect, oldest first

userVars == <<users, pc, op, uid, arg, email, userDoc, result>>

loginVars == <<cookie, loginReq, loginResp>>

courseVars == <<hpc, hreq, hcalls, hresp>>

hookVars == <<selection, branches, loading, error, runs>>

vars == <<users, pc, op, uid, arg, email, userDoc, result,
          now, cookie, loginReq, loginResp, hpc, hreq, hcalls, hresp,
         selection, branches, loading, error, runs>>

----------------------------------------------------------------------------
(* Values *)

\* JavaScript's undefined: a key an object does not have.
Undefined == "undefined"

\* Document keys of the users collection.
Uids == {"u1", "u2"}

\* Field names of a profile or of an updates object.
Keys == {"uid", "role", "email", "notAllowedField"}

\* The values an updates object may give to a key.
UpdateVals(k) ==
    CASE k = "uid" -> Uids
      [] k = "role" -> {"Student", "Admin"}
      [] k = "email" -> {"a@b.c"}
      [] OTHER -> {"x"}

\* The largest number of keys of an updates object.
MaxUpdateKeys == 3

PresentKeys(o) == {k \in Keys : o[k] # Undefined}

\* The updates objects updateUser is called with.
Updates ==
    {o \in {[uid |-> a, role |-> b, email |-> c, notAllowedField |-> d] :
                a \in {Undefined} \cup UpdateVals("uid"),
                b \in {Undefined} \cup UpdateVals("role"),
                c \in {Undefined} \cup UpdateVals("email"),
                d \in {Undefined} \cup UpdateVals("notAllowedField")} :
        Cardinality(PresentKeys(o)) <= MaxUpdateKeys}

\* The email arguments verifyUser is called with.
Emails == {"a@b.c", "not-an-email", ""}

\* Call slots: the calls that may be in flight at once.
Procs == {"p1", "p2"}

EmptyObject == [k \in Keys |-> Undefined]

\* A snapshot of a document that does not exist.
NoDoc == [exists |-> FALSE, data |-> EmptyObject]

Snapshot(data) == [exists |-> TRUE, data |-> data]

NoResult == [status |-> "none", data |-> EmptyObject]

Returned(value) == [status |-> value, data |-> EmptyObject]

ReturnedData(data) == [status |-> "user", data |-> data]

Thrown(message) == [status |-> message, data |-> EmptyObject]

----------------------------------------------------------------------------
(* utils/batchOperations and constants/constants *)

\* The keys updateUser may write.
userAllowedKeys == {"role", "email"}

\* updates restricted to the allowed keys.
filterForAllowedKeys(updates, allowedKeys) ==
    [k \in Keys |-> IF k \in allowedKeys THEN updates[k] ELSE Undefined]

\* Whether an email argument is a well-formed address.
isValidEmail(e) == e = "a@b.c"

----------------------------------------------------------------------------
(* The document store operations userService.js calls *)

\* userRef.set(data): the document becomes exactly data.
DocSet(data) == Snapshot(data)

\* userRef.update(fields) validates its argument before it writes: an update
\* map with no field is rejected ("At least one field must be updated.").
EmptyUpdate(fields) == PresentKeys(fields) = {}

\* userRef.update(fields) on an existing document, fields not empty: the
\* given fields are merged into it, the others kept.
DocUpdate(snap, fields) ==
    Snapshot([k \in Keys |->
        IF fields[k] # Undefined THEN fields[k] ELSE snap.data[k]])

\* The document saveUser creates: { uid, role: 'Student' }.
NewUser(u) == [EmptyObject EXCEPT !["uid"] = u, !["role"] = "Student"]

----------------------------------------------------------------------------
(* userService.js, one action per store round trip *)

UserInit ==
    /\ users = [u \in Uids |-> NoDoc]
    /\ pc = [p \in Procs |-> "idle"]
    /\ op = [p \in Procs |-> "none"]
    /\ uid = [p \in Procs |-> "u1"]
    /\ arg = [p \in Procs |-> EmptyObject]
    /\ email = [p \in Procs |-> ""]
    /\ userDoc = [p \in Procs |-> NoDoc]
    /\ result = [p \in Procs |-> NoResult]

\* A caller invokes function o of the service.
Call(p, o, u, a, e) ==
    /\ pc[p] = "idle"
    /\ pc' = [pc EXCEPT ![p] = "get"]
    /\ op' = [op EXCEPT ![p] = o]
    /\ uid' = [uid EXCEPT ![p] = u]
    /\ arg' = [arg EXCEPT ![p] = a]
    /\ email' = [email EXCEPT ![p] = e]
    /\ userDoc' = [userDoc EXCEPT ![p] = NoDoc]
    /\ result' = [result EXCEPT ![p] = NoResult]
    /\ UNCHANGED users

\* The call ends with r and touches the store no more.
Finish(p, r) ==
    /\ pc' = [pc EXCEPT ![p] = "done"]
    /\ result' = [result EXCEPT ![p] = r]

\* Mutant: saveUser writes without looking at userDoc.exists.
saveUser_get_NoCheck(p) ==
    /\ pc[p] = "get" /\ op[p] = "saveUser"
    /\ userDoc' = [userDoc EXCEPT ![p] = users[uid[p]]]
    /\ pc' = [pc EXCEPT ![p] = "write"]
    /\ UNCHANGED <<users, op, uid, arg, email, result>>

\* saveUser: userRef.get(), then return true if the document exists.
saveUser_get(p) ==
    /\ pc[p] = "get" /\ op[p] = "saveUser"
    /\ userDoc' = [userDoc EXCEPT ![p] = users[uid[p]]]
    /\ IF ~users[uid[p]].exists
          THEN /\ pc' = [pc EXCEPT ![p] = "write"]
               /\ UNCHANGED result
          ELSE Finish(p, Returned("true"))
    /\ UNCHANGED <<users, op, uid, arg, email>>

\* saveUser: userRef.set({ uid, role: 'Student' }), then return false.
saveUser_set(p) ==
    /\ pc[p] = "write" /\ op[p] = "saveUser"
    /\ users' = [users EXCEPT ![uid[p]] = DocSet(NewUser(uid[p]))]
    /\ Finish(p, Returned("false"))
    /\ UNCHANGED <<op, uid, arg, email, userDoc>>

\* getUserById: get(), then throw or return the data.
getUserById(p) ==
    /\ pc[p] = "get" /\ op[p] = "getUserById"
    /\ userDoc' = [userDoc EXCEPT ![p] = users[uid[p]]]
    /\ IF ~users[uid[p]].exists
          THEN Finish(p, Thrown("User with uid not found"))
          ELSE Finish(p, ReturnedData(users[uid[p]].data))
    /\ UNCHANGED <<users, op, uid, arg, email>>

\* updateUser: get(), then throw if the document does not exist.
updateUser_get(p) ==
    /\ pc[p] = "get" /\ op[p] = "updateUser"
    /\ userDoc' = [userDoc EXCEPT ![p] = users[uid[p]]]
    /\ IF ~users[uid[p]].exists
          THEN Finish(p, Thrown("No user found with ID"))
          ELSE /\ pc' = [pc EXCEPT ![p] = "write"]
               /\ UNCHANGED result
    /\ UNCHANGED <<users, op, uid, arg, email>>

\* Mutant: updateUser hands updates to userRef.update as given.
filteredUpdates_Unfiltered(updates) == updates

\* The fields updateUser hands to userRef.update.
filteredUpdates(updates) == filterForAllowedKeys(updates, userAllowedKeys)

\* updateUser: userRef.update(filteredUpdates), then return the message.  The
\* store rejects an update map with no field, and an update of a document
\* that no longer exists; updateUser then rejects with the store's error.
updateUser_update(p) ==
    /\ pc[p] = "write" /\ op[p] = "updateUser"
    /\ IF EmptyUpdate(filteredUpdates(arg[p]))
          THEN /\ UNCHANGED users
               /\ Finish(p, Thrown("store: At least one field must be updated."))
       ELSE IF users[uid[p]].exists
          THEN /\ users' = [users EXCEPT ![uid[p]] =
                                DocUpdate(@, filteredUpdates(arg[p]))]
               /\ Finish(p, Returned("User document updated successfully"))
          ELSE /\ UNCHANGED users
               /\ Finish(p, Thrown("store: no document to update"))
    /\ UNCHANGED <<op, uid, arg, email, userDoc>>

\* Mutant: deleteUser deletes without looking at userDoc.exists.
deleteUser_get_NoCheck(p) ==
    /\ pc[p] = "get" /\ op[p] = "deleteUser"
    /\ userDoc' = [userDoc EXCEPT ![p] = users[uid[p]]]
    /\ pc' = [pc EXCEPT ![p] = "write"]
    /\ UNCHANGED <<users, op, uid, arg, email, result>>

\* deleteUser: get(), then throw if the document does not exist.
deleteUser_get(p) ==
    /\ pc[p] = "get" /\ op[p] = "deleteUser"
    /\ userDoc' = [userDoc EXCEPT ![p] = users[uid[p]]]
    /\ IF ~users[uid[p]].exists
          THEN Finish(p, Thrown("No user found with ID"))
          ELSE /\ pc' = [pc EXCEPT ![p] = "write"]
               /\ UNCHANGED result
    /\ UNCHANGED <<users, op, uid, arg, email>>

\* Mutant: deleteUser marks the profile deleted and keeps the document.
deleteUser_delete_Soft(p) ==
    /\ pc[p] = "write" /\ op[p] = "deleteUser"
    /\ users' = [users EXCEPT ![uid[p]] =
                    Snapshot([@.data EXCEPT !["role"] = "Deleted"])]
    /\ Finish(p, Returned("User deleted successfully"))
    /\ UNCHANGED <<op, uid, arg, email, userDoc>>

\* deleteUser: userRef.delete(), then return the message.
deleteUser_delete(p) ==
    /\ pc[p] = "write" /\ op[p] = "deleteUser"
    /\ users' = [users EXCEPT ![uid[p]] = NoDoc]
    /\ Finish(p, Returned("User deleted successfully"))
    /\ UNCHANGED <<op, uid, arg, email, userDoc>>

\* Mutant: verifyUser checks the email before the existence of the profile.
verifyUser_EmailFirst(p) ==
    /\ pc[p] = "get" /\ op[p] = "verifyUser"
    /\ userDoc' = [userDoc EXCEPT ![p] = users[uid[p]]]
    /\ IF ~isValidEmail(email[p])
          THEN Finish(p, Thrown("Invalid email address"))
          ELSE IF ~users[uid[p]].exists
                  THEN Finish(p, Thrown("User not found"))
                  ELSE Finish(p, Returned("true"))
    /\ UNCHANGED <<users, op, uid, arg, email>>

\* verifyUser: get(), the existence check, then the email check.
verifyUser(p) ==
    /\ pc[p] = "get" /\ op[p] = "verifyUser"
    /\ userDoc' = [userDoc EXCEPT ![p] = users[uid[p]]]
    /\ IF ~users[uid[p]].exists
          THEN Finish(p, Thrown("User not found"))
          ELSE IF ~isValidEmail(email[p])
                  THEN Finish(p, Thrown("Invalid email address"))
                  ELSE Finish(p, Returned("true"))
    /\ UNCHANGED <<users, op, uid, arg, email>>

\* The caller takes the outcome; the slot is free for the next call.
Return(p) ==
    /\ pc[p] = "done"
    /\ pc' = [pc EXCEPT ![p] = "idle"]
    /\ op' = [op EXCEPT ![p] = "none"]
    /\ uid' = [uid EXCEPT ![p] = "u1"]
    /\ arg' = [arg EXCEPT ![p] = EmptyObject]
    /\ email' = [email EXCEPT ![p] = ""]
    /\ userDoc' = [userDoc EXCEPT ![p] = NoDoc]
    /\ result' = [result EXCEPT ![p] = NoResult]
    /\ UNCHANGED users

\* The calls a caller may make, with updates from ups and emails from ems.
CallAny(p, ups, ems) ==
    \/ \E u \in Uids : Call(p, "saveUser", u, EmptyObject, "")
    \/ \E u \in Uids : Call(p, "getUserById", u, EmptyObject, "")
    \/ \E u \in Uids, a \in ups : Call(p, "updateUser", u, a, "")
    \/ \E u \in Uids : Call(p, "deleteUser", u, EmptyObject, "")
    \/ \E u \in Uids, e \in ems : Call(p, "verifyUser", u, EmptyObject, e)

\* One store round trip of the call in slot p.
Step(p) ==
    \/ saveUser_get(p)
    \/ saveUser_set(p)
    \/ getUserById(p)
    \/ updateUser_get(p)
    \/ updateUser_update(p)
    \/ deleteUser_get(p)
    \/ deleteUser_delete(p)
    \/ verifyUser(p)
    \/ Return(p)

\* Sequential use: one call at a time, each run to its end before the next.
SeqNext ==
    /\ CallAny("p1", Updates, Emails) \/ Step("p1")
    /\ UNCHANGED <<now, loginVars, courseVars, hookVars>>

\* The updates and emails of the concurrent calls.
ConcUpdates ==
    {o \in Updates : o["uid"] # Undefined /\ o["role"] = "Admin" /\ o["email"] # Undefined}

ConcEmails == {"a@b.c", ""}

\* Concurrent use: the round trips of the calls in flight interleave.
Next ==
    /\ \E p \in Procs : CallAny(p, ConcUpdates, ConcEmails) \/ Step(p)
    /\ UNCHANGED <<now, loginVars, courseVars, hookVars>>

----------------------------------------------------------------------------
(* Tokens: jwt.sign in the login handler, checkJwt in the course handlers *)

\* functions.config().auth: the signing key and the admin credentials.
secretKey == "secret"

adminUsername == <<"a">>

adminPassword == <<"s">>

\* expiresIn: '1h', in seconds.
ExpiresIn == 3600

\* The clock advances by this many seconds at a time, MaxTicks times at most.
TickSeconds == 1800

MaxTicks == 3

\* Browsers that hold a token cookie.
Clients == {"c1", "c2"}

\* A request that carries no token.
NoToken == [kind |-> "none", uid |-> Undefined, iat |-> 0, exp |-> 0, key |-> ""]

\* A token value that is no JWT.
Garbage == [kind |-> "garbage", uid |-> Undefined, iat |-> 0, exp |-> 0, key |-> ""]

\* Mutant: the lifetime is taken in milliseconds.
sign_Milliseconds(payloadUid, key, expiresIn, at) ==
    [kind |-> "jwt", uid |-> payloadUid, iat |-> at, exp |-> at + 1000 * expiresIn,
     key |-> key]

\* jwt.sign(payload, key, { expiresIn }) at time at.
sign(payloadUid, key, expiresIn, at) ==
    [kind |-> "jwt", uid |-> payloadUid, iat |-> at, exp |-> at + expiresIn,
     key |-> key]

\* A JWT for u1 signed at time 0 with a key that is not the server's.
Forged == sign("u1", "not-the-secret", ExpiresIn, 0)

\* checkJwt: resolves with the subject of a token that is present, well
\* formed, signed with secretKey and not expired; rejects with 'TokenExpired'
\* when only the expiry fails and with 'Unauthorized' otherwise.
checkJwt(token, at) ==
    IF token.kind # "jwt" \/ token.key # secretKey
       THEN [outcome |-> "Unauthorized", subject |-> Undefined]
       ELSE IF at >= token.exp
               THEN [outcome |-> "TokenExpired", subject |-> Undefined]
               ELSE [outcome |-> "ok", subject |-> token.uid]

\* Time passes.
Tick ==
    /\ now + TickSeconds <= MaxTicks * TickSeconds
    /\ now' = now + TickSeconds
    /\ UNCHANGED <<userVars, loginVars, courseVars, hookVars>>

----------------------------------------------------------------------------
(* exports.login *)

\* The characters of the credentials a Basic header carries.
Chars == {"a", "s", ":"}

\* The longest credentials text.
MaxCredLen == 4

SeqsUpTo(S, n) == UNION {[1..k -> S] : k \in 0..n}

Credentials == SeqsUpTo(Chars, MaxCredLen)

\* A text that is not there (undefined).
UndefinedText == <<Undefined>>

\* request.headers.authorization: absent, or a scheme prefix followed by a
\* payload, which is written here as the text its base64 decodes to.
NoHeader == [scheme |-> Undefined, creds |-> <<>>]

AuthHeaders ==
    {NoHeader} \cup [scheme : {"Basic ", "Bearer "}, creds : Credentials]

\* request.body.uid: absent, empty or a uid.
BodyUids == {Undefined, ""} \cup Uids

LoginRequests ==
    [method : {"POST", "GET"}, authorization : AuthHeaders, uid : BodyUids]

NoLoginRequest == [method |-> "GET", authorization |-> NoHeader, uid |-> Undefined]

\* str.split(sep)
RECURSIVE split(_, _)
split(str, sep) ==
    IF \A i \in 1..Len(str) : str[i] # sep
       THEN <<str>>
       ELSE LET i == CHOOSE j \in 1..Len(str) :
                        str[j] = sep /\ \A k \in 1..(j - 1) : str[k] # sep
            IN  <<SubSeq(str, 1, i - 1)>> \o split(SubSeq(str, i + 1, Len(str)), sep)

\* const [username, password] = credentials.split(':')
username(credentials) == split(credentials, ":")[1]

password(credentials) ==
    IF Len(split(credentials, ":")) >= 2
       THEN split(credentials, ":")[2]
       ELSE UndefinedText

LoginResponse(status, body, token) ==
    [status |-> status, body |-> body, setCookie |-> token]

NoResponse == LoginResponse(0, "", NoToken)

\* The login handler: the response to request at time at.
login(request, at) ==
    IF request.method # "POST"
       THEN LoginResponse(405, "Method Not Allowed", NoToken)
    ELSE IF request.authorization.scheme # "Basic "
       THEN LoginResponse(401, "Unauthorized", NoToken)
    ELSE IF /\ username(request.authorization.creds) = adminUsername
            /\ password(request.authorization.creds) = adminPassword
       THEN IF request.uid \in {Undefined, ""}
               THEN LoginResponse(400, "Incomplete request", NoToken)
               ELSE LoginResponse(200, "Login successful",
                                  sign(request.uid, secretKey, ExpiresIn, at))
    ELSE LoginResponse(401, "Unauthorized", NoToken)

\* Client c sends a login request; the browser stores the cookie the
\* response sets.
Login(c, request) ==
    /\ loginResp = NoResponse
    /\ loginReq' = request
    /\ loginResp' = login(request, now)
    /\ cookie' = IF login(request, now).setCookie # NoToken
                    THEN [cookie EXCEPT ![c] = login(request, now).setCookie]
                    ELSE cookie
    /\ UNCHANGED <<now, userVars, courseVars, hookVars>>

\* The response is sent; the next login request may come.
LoginRespond ==
    /\ loginResp # NoResponse
    /\ loginReq' = NoLoginRequest
    /\ loginResp' = NoResponse
    /\ UNCHANGED <<now, cookie, userVars, courseVars, hookVars>>

\* The admin's login requests: the configured credentials and a uid.
AdminLoginRequests ==
    {r \in LoginRequests :
        /\ r.method = "POST"
        /\ r.authorization = [scheme |-> "Basic ", creds |-> <<"a", ":", "s">>]
        /\ r.uid \in Uids}

LoginInit ==
    /\ now = 0
    /\ cookie = [c \in Clients |-> NoToken]
    /\ loginReq = NoLoginRequest
    /\ loginResp = NoResponse

----------------------------------------------------------------------------
(* service/facultyCollections: reads of faculties/{facultyId}/courses *)

\* A JavaScript number: NaN or an integer.
NaN == [nan |-> TRUE, v |-> 0]

Num(n) == [nan |-> FALSE, v |-> n]

\* The courses of the store, by faculty.
Courses(facultyId) ==
    IF facultyId = <<"F", "1">>
       THEN {[id |-> "c1", programId |-> Num(3), branchId |-> Num(3)],
             [id |-> "c2", programId |-> Num(33), branchId |-> Num(3)]}
       ELSE {}

\* An equality filter of the store: NaN equals nothing.
NumEq(a, b) == ~a.nan /\ ~b.nan /\ a.v = b.v

StoreResult(ok, items) == [ok |-> ok, items |-> items]

getAllFacultyCollectionItems(facultyId) ==
    StoreResult(TRUE, {c.id : c \in Courses(facultyId)})

\* Fails when the faculty has no item with the id.
getItemByFacultyAndCollectionAndItemId(facultyId, itemId) ==
    IF \E c \in Courses(facultyId) : c.id = itemId
       THEN StoreResult(TRUE, {itemId})
       ELSE StoreResult(FALSE, {})

getItemByFacultyAndCollectionAndFilterById(facultyId, field, value) ==
    StoreResult(TRUE, {c.id : c \in {d \in Courses(facultyId) : NumEq(d[field], value)}})

----------------------------------------------------------------------------
(* exports.getOneById, getAllForFaculty, getAllForProgram, getAllForBranch *)

Handlers == {"getOneById", "getAllForFaculty", "getAllForProgram", "getAllForBranch"}

\* The characters of a programId or branchId query parameter.
ParamChars == {"3", "x"}

\* The longest programId or branchId parameter.
MaxParamLen == 2

\* Query parameter values: absent, or a text.
FacultyParams == {UndefinedText, <<>>, <<"F", "1">>}

CourseParams == {UndefinedText, <<>>, <<"c", "1">>, <<"z">>}

NumberParams == {UndefinedText} \cup SeqsUpTo(ParamChars, MaxParamLen)

\* The second query parameter each handler reads.
SecondParams(h) ==
    CASE h = "getOneById" -> CourseParams
      [] h = "getAllForFaculty" -> {UndefinedText}
      [] OTHER -> NumberParams

\* !param
Falsy(param) == param \in {UndefinedText, <<>>}

\* The id a courseId text names.
ItemId(text) == IF text = <<"c", "1">> THEN "c1" ELSE "none"

Digit(ch) == IF ch = "3" THEN 3 ELSE 0

\* Number(text) for a non-empty text: its decimal value, or NaN when a
\* character is no digit.
RECURSIVE Decimal(_)
Decimal(text) ==
    IF text = <<>> THEN 0
    ELSE 10 * Decimal(SubSeq(text, 1, Len(text) - 1)) + Digit(text[Len(text)])

Number(text) ==
    IF \E i \in 1..Len(text) : text[i] \notin {"3"}
       THEN NaN
       ELSE Num(Decimal(text))

CourseResponse(status, body, items) ==
    [status |-> status, body |-> body, result |-> items]

NoCourseResponse == CourseResponse(0, "", {})

NoCourseRequest ==
    [handler |-> "getAllForFaculty", facultyId |-> UndefinedText,
     second |-> UndefinedText, token |-> NoToken]

\* Mutant: the second parameter is checked before facultyId.
MissingParam_SecondFirst(request) ==
    IF request.handler = "getOneById" /\ Falsy(request.second)
       THEN CourseResponse(400, "No course sent", {})
    ELSE IF request.handler = "getAllForProgram" /\ Falsy(request.second)
       THEN CourseResponse(400, "No program sent", {})
    ELSE IF request.handler = "getAllForBranch" /\ Falsy(request.second)
       THEN CourseResponse(400, "No branch sent", {})
    ELSE IF Falsy(request.facultyId)
       THEN CourseResponse(400, "No faculty ID sent", {})
    ELSE NoCourseResponse

\* The 400 response for a missing query parameter, or NoCourseResponse.
MissingParam(request) ==
    IF Falsy(request.facultyId)
       THEN CourseResponse(400, "No faculty ID sent", {})
    ELSE IF request.handler = "getOneById" /\ Falsy(request.second)
       THEN CourseResponse(400, "No course sent", {})
    ELSE IF request.handler = "getAllForProgram" /\ Falsy(request.second)
       THEN CourseResponse(400, "No program sent", {})
    ELSE IF request.handler = "getAllForBranch" /\ Falsy(request.second)
       THEN CourseResponse(400, "No branch sent", {})
    ELSE NoCourseResponse

\* A handler receives a request and checks its query parameters.
Receive(request) ==
    /\ hpc = "idle"
    /\ hreq' = request
    /\ hcalls' = <<>>
    /\ IF MissingParam(request) # NoCourseResponse
          THEN hpc' = "done" /\ hresp' = MissingParam(request)
          ELSE hpc' = "checkJwt" /\ hresp' = NoCourseResponse
    /\ UNCHANGED <<now, userVars, loginVars, hookVars>>

\* Mutant: the catch block answers every rejection of checkJwt alike.
CatchJwt_Collapsed(caught) ==
    IF caught \in {"TokenExpired", "Unauthorized"}
       THEN [status |-> 401, body |-> "Unauthorized", result |-> {}]
       ELSE [status |-> 500, body |-> "Failed to find", result |-> {}]

\* The catch block for what checkJwt rejected with.
CatchJwt(caught) ==
    IF caught = "TokenExpired" THEN CourseResponse(401, "Token has expired", {})
    ELSE IF caught = "Unauthorized" THEN CourseResponse(401, "Unauthorized", {})
    ELSE CourseResponse(500, "Failed to find", {})

\* Mutant: checkJwt(request) is called and not awaited.
AwaitCheckJwt_NotAwaited ==
    /\ hpc = "checkJwt"
    /\ hcalls' = Append(hcalls, [call |-> "checkJwt",
                                 outcome |-> checkJwt(hreq.token, now).outcome,
                                 subject |-> checkJwt(hreq.token, now).subject])
    /\ hpc' = "read"
    /\ UNCHANGED <<now, hreq, hresp, userVars, loginVars, hookVars>>

\* await checkJwt(request): on rejection the catch block answers.
AwaitCheckJwt ==
    /\ hpc = "checkJwt"
    /\ hcalls' = Append(hcalls, [call |-> "checkJwt",
                                 outcome |-> checkJwt(hreq.token, now).outcome,
                                 subject |-> checkJwt(hreq.token, now).subject])
    /\ IF checkJwt(hreq.token, now).outcome = "ok"
          THEN hpc' = "read" /\ UNCHANGED hresp
          ELSE hpc' = "done" /\ hresp' = CatchJwt(checkJwt(hreq.token, now).outcome)
    /\ UNCHANGED <<now, hreq, userVars, loginVars, hookVars>>

\* The store read each handler makes.
StoreRead(request) ==
    CASE request.handler = "getOneById" ->
            getItemByFacultyAndCollectionAndItemId(request.facultyId,
                                                   ItemId(request.second))
      [] request.handler = "getAllForFaculty" ->
            getAllFacultyCollectionItems(request.facultyId)
      [] request.handler = "getAllForProgram" ->
            getItemByFacultyAndCollectionAndFilterById(
                request.facultyId, "programId", Number(request.second))
      [] OTHER ->
            getItemByFacultyAndCollectionAndFilterById(
                request.facultyId, "branchId", Number(request.second))

\* await the store read, then 200 with the result, or 500 when it failed.
AwaitStoreRead ==
    /\ hpc = "read"
    /\ hcalls' = Append(hcalls, [call |-> "read",
                                 outcome |-> IF StoreRead(hreq).ok THEN "ok" ELSE "error",
                                 subject |-> Undefined])
    /\ hpc' = "done"
    /\ hresp' = IF StoreRead(hreq).ok
                   THEN CourseResponse(200, "result", StoreRead(hreq).items)
                   ELSE CourseResponse(500, "Failed to find", {})
    /\ UNCHANGED <<now, hreq, userVars, loginVars, hookVars>>

\* The response is sent; the next request may come.
Respond ==
    /\ hpc = "done"
    /\ hpc' = "idle"
    /\ hreq' = NoCourseRequest
    /\ hcalls' = <<>>
    /\ hresp' = NoCourseResponse
    /\ UNCHANGED <<now, userVars, loginVars, hookVars>>

\* The course requests that carry one of tokens.
CourseRequests(tokens) ==
    UNION {[handler : {h}, facultyId : FacultyParams,
            second : SecondParams(h), token : tokens] : h \in Handlers}

CourseInit ==
    /\ hpc = "idle"
    /\ hreq = NoCourseRequest
    /\ hcalls = <<>>
    /\ hresp = NoCourseResponse

----------------------------------------------------------------------------
(* useBranches (React hook) and the branches query it sends                *)

\* The number of times the effect of the hook runs.
MaxRuns == 3

\* selectedYear: null or a number.
NullYear == [null |-> TRUE, v |-> 0]

Year(n) == [null |-> FALSE, v |-> n]

SelectedYears == {NullYear, Year(1), Year(2)}

\* facultyId and programId as the component receives them; "" when nothing
\* is selected.
FacultyIds == {<<>>, <<"F", "1">>}

ProgramIds == {<<>>, <<"3">>, <<"3", "3">>}

Selections ==
    [facultyId : FacultyIds, programId : ProgramIds, selectedYear : SelectedYears]

NoSelection == [facultyId |-> <<>>, programId |-> <<>>, selectedYear |-> NullYear]

\* The documents of faculties/<facultyId>/branches.
BranchDocs(facultyId) ==
    IF facultyId = <<"F", "1">>
       THEN {[id |-> "b1", programId |-> Num(3), year |-> Num(1)],
             [id |-> "b2", programId |-> Num(3), year |-> Num(2)],
             [id |-> "b3", programId |-> Num(33), year |-> Num(1)]}
       ELSE {}

\* The branches query of a selection; the list is kept as the set of its
\* documents' ids.
branchesList(sel) ==
    {d.id : d \in {b \in BranchDocs(sel.facultyId) :
                      /\ NumEq(b.programId, Number(sel.programId))
                      /\ NumEq(b.year, Num(sel.selectedYear.v))}}

\* facultyId && programId && selectedYear !== null
Complete(sel) ==
    /\ sel.facultyId # <<>>
    /\ sel.programId # <<>>
    /\ ~sel.selectedYear.null

NoError == "null"

FetchError == "fetch failed"

\* One run of the effect: the selection it closed over and the state of its
\* fetch ("none" when it sent no query).
Run(sel, state) == [sel |-> sel, state |-> state]

\* useState initial values, before the first render.
HookInit ==
    /\ selection = NoSelection
    /\ branches = {}
    /\ loading = TRUE
    /\ error = NoError
    /\ runs = <<>>

\* The component renders with a selection; the effect runs on the first
\* render and whenever a dependency changed, up to the await.
Render(sel) ==
    /\ Len(runs) < MaxRuns
    /\ runs = <<>> \/ sel # selection
    /\ selection' = sel
    /\ IF Complete(sel)
          THEN /\ loading' = TRUE
               /\ error' = NoError
               /\ runs' = Append(runs, Run(sel, "pending"))
               /\ UNCHANGED branches
          ELSE /\ branches' = {}
               /\ loading' = FALSE
               /\ runs' = Append(runs, Run(sel, "none"))
               /\ UNCHANGED error
    /\ UNCHANGED <<now, userVars, loginVars, courseVars>>

\* The query of run i resolves: setBranches, then finally setLoading(false).
Fulfil(i) ==
    /\ i \in 1..Len(runs)
    /\ runs[i].state = "pending"
    /\ runs' = [runs EXCEPT ![i].state = "fulfilled"]
    /\ branches' = branchesList(runs[i].sel)
    /\ loading' = FALSE
    /\ UNCHANGED <<selection, error>>
    /\ UNCHANGED <<now, userVars, loginVars, courseVars>>

\* The query of run i rejects: setError, then finally setLoading(false).
Reject(i) ==
    /\ i \in 1..Len(runs)
    /\ runs[i].state = "pending"
    /\ runs' = [runs EXCEPT ![i].state = "rejected"]
    /\ error' = FetchError
    /\ loading' = FALSE
    /\ UNCHANGED <<selection, branches>>
    /\ UNCHANGED <<now, userVars, loginVars, courseVars>>

----------------------------------------------------------------------------
(* Specifications *)

Init == UserInit /\ LoginInit /\ CourseInit /\ HookInit

SeqSpec == Init /\ [][SeqNext]_vars

Spec == Init /\ [][Next]_vars

\* The login handler under every request.
LoginNext ==
    \/ \E c \in Clients, r \in LoginRequests : Login(c, r)
    \/ LoginRespond

LoginSpec == Init /\ [][LoginNext]_vars

\* The course handlers: a client logs in as the admin, time passes, and
\* requests come with the client's cookie, no token, or a bad token.
CourseNext ==
    \/ \E r \in AdminLoginRequests : Login("c1", r)
    \/ LoginRespond
    \/ Tick
    \/ \E r \in CourseRequests({cookie["c1"], NoToken, Garbage, Forged}) : Receive(r)
    \/ AwaitCheckJwt
    \/ AwaitStoreRead
    \/ Respond

CourseSpec == Init /\ [][CourseNext]_vars

\* The life of a token: logins, the clock, requests that present the cookie
\* the client held when it sent them, and calls that create, update and
\* delete the profile of u1.
TokenNext ==
    \/ \E r \in AdminLoginRequests : Login("c1", r)
    \/ LoginRespond
    \/ Tick
    \/ \E r \in CourseRequests({cookie["c1"]}) :
            /\ r.handler = "getAllForFaculty" /\ r.facultyId = <<"F", "1">>
            /\ Receive(r)
    \/ AwaitCheckJwt
    \/ AwaitStoreRead
    \/ Respond
    \/ /\ \/ Call("p1", "saveUser", "u1", EmptyObject, "")
          \/ \E a \in ConcUpdates : Call("p1", "updateUser", "u1", a, "")
          \/ Call("p1", "deleteUser", "u1", EmptyObject, "")
          \/ saveUser_get("p1") \/ saveUser_set("p1")
          \/ updateUser_get("p1") \/ updateUser_update("p1")
          \/ deleteUser_get("p1") \/ deleteUser_delete("p1")
          \/ Return("p1")
       /\ UNCHANGED <<now, loginVars, courseVars, hookVars>>

TokenSpec == Init /\ [][TokenNext]_vars

\* The hook alone: renders and the completions of its queries, in any order.
HookNext ==
    \/ \E sel \in Selections : Render(sel)
    \/ \E i \in 1..MaxRuns : Fulfil(i)
    \/ \E i \in 1..MaxRuns : Reject(i)

HookSpec == Init /\ [][HookNext]_vars

----------------------------------------------------------------------------
(* Properties of the user profile service *)

\* The messages of the errors that report a missing profile.
NotFoundMessages ==
    {"User with uid not found", "No user found with ID", "User not found"}

\* Slot p took a step that moved its call on from stage s.
Moved(p, s) == pc[p] = s /\ pc'[p] # s

\* C1: sequential saveUser is an idempotent create.  A saveUser that found no
\* profile returned false and left exactly {uid, role: "Student"} under the
\* uid; one that found a profile returned true and left it as it was.
C1_SaveUserIdempotentCreate ==
    \A p \in Procs :
        (pc[p] = "done" /\ op[p] = "saveUser") =>
            IF ~userDoc[p].exists
               THEN /\ result[p].status = "false"
                    /\ users[uid[p]].exists
                    /\ users[uid[p]].data =
                          [k \in Keys |-> CASE k = "uid" -> uid[p]
                                            [] k = "role" -> "Student"
                                            [] OTHER -> Undefined]
               ELSE /\ result[p].status = "true"
                    /\ users[uid[p]] = userDoc[p]

\* A later saveUser on a profile updateUser had changed returned true.
C1_Witness ==
    /\ pc["p1"] = "done" /\ op["p1"] = "saveUser"
    /\ userDoc["p1"].exists
    /\ userDoc["p1"].data["role"] = "Admin"
    /\ userDoc["p1"].data["email"] = "a@b.c"
    /\ result["p1"].status = "true"
    /\ users[uid["p1"]] = userDoc["p1"]

\* C2: updateUser on an existing profile succeeds and writes exactly the
\* allow-listed keys of updates: those hold the new values, every other field
\* of the stored profile is as it was before the call.
C2_UpdateWritesAllowedKeysOnly ==
    \A p \in Procs :
        (pc[p] = "done" /\ op[p] = "updateUser" /\ userDoc[p].exists) =>
            /\ result[p].status = "User document updated successfully"
            /\ users[uid[p]].exists
            /\ \A k \in Keys :
                  users[uid[p]].data[k] =
                      IF k \in userAllowedKeys /\ arg[p][k] # Undefined
                         THEN arg[p][k]
                         ELSE userDoc[p].data[k]

\* C3: in every state, under any interleaving of the calls, the uid field of
\* each stored profile is the key the profile is stored under.
C3_UidIsDocumentKey ==
    \A u \in Uids : users[u].exists => users[u].data["uid"] = u

\* An updateUser whose updates name another uid succeeded while another call
\* was in flight, and the profile kept its uid.
C3_Witness ==
    \E p \in Procs, q \in Procs :
        /\ p # q
        /\ pc[p] = "done" /\ op[p] = "updateUser"
        /\ arg[p]["uid"] # Undefined /\ arg[p]["uid"] # uid[p]
        /\ result[p].status = "User document updated successfully"
        /\ users[uid[p]].exists /\ users[uid[p]].data["uid"] = uid[p]
        /\ pc[q] = "write" /\ uid[q] = uid[p]

\* C4: getUserById, updateUser, deleteUser and verifyUser on a uid with no
\* stored profile end at once with a not-found error and leave the users
\* collection as it was.
C4_AbsentUidFailsAndKeepsStore ==
    [][\A p \in Procs :
          ( /\ Moved(p, "get")
            /\ op[p] \in {"getUserById", "updateUser", "deleteUser", "verifyUser"}
            /\ ~users[uid[p]].exists )
          => /\ pc'[p] = "done"
             /\ result'[p].status \in NotFoundMessages
             /\ users' = users]_vars

\* deleteUser failed on an absent uid while another profile was stored.
C4_Witness ==
    /\ pc["p1"] = "done" /\ op["p1"] = "deleteUser"
    /\ ~userDoc["p1"].exists
    /\ result["p1"].status = "No user found with ID"
    /\ ~users[uid["p1"]].exists
    /\ \E u \in Uids : users[u].exists

\* C5: deleteUser on an existing profile removes the document; while the uid
\* has no document getUserById and deleteUser fail with not-found, and
\* saveUser returns false and stores exactly {uid, role: "Student"}.
C5_DeleteLeavesNoResidue ==
    [][\A p \in Procs :
          /\ (Moved(p, "write") /\ op[p] = "deleteUser")
                => /\ ~users'[uid[p]].exists
                   /\ users'[uid[p]].data = EmptyObject
                   /\ result'[p].status = "User deleted successfully"
          /\ (Moved(p, "get") /\ op[p] \in {"getUserById", "deleteUser"}
                /\ ~users[uid[p]].exists)
                => /\ pc'[p] = "done"
                   /\ result'[p].status \in NotFoundMessages
                   /\ ~users'[uid[p]].exists
          /\ (Moved(p, "get") /\ op[p] = "saveUser" /\ ~users[uid[p]].exists)
                => /\ pc'[p] = "write"
                   /\ ~users'[uid[p]].exists
          /\ (Moved(p, "write") /\ op[p] = "saveUser")
                => /\ ~users[uid[p]].exists
                   /\ result'[p].status = "false"
                   /\ users'[uid[p]].exists
                   /\ users'[uid[p]].data =
                         [k \in Keys |-> CASE k = "uid" -> uid[p]
                                           [] k = "role" -> "Student"
                                           [] OTHER -> Undefined]]_vars

\* deleteUser succeeded on a profile that updateUser had made an Admin with
\* an email, and nothing is stored under the uid.
C5_Witness ==
    /\ pc["p1"] = "done" /\ op["p1"] = "deleteUser"
    /\ userDoc["p1"].exists
    /\ userDoc["p1"].data["role"] = "Admin"
    /\ userDoc["p1"].data["email"] = "a@b.c"
    /\ result["p1"].status = "User deleted successfully"
    /\ users[uid["p1"]] = NoDoc

\* C6: verifyUser fails with not-found when the profile is absent, whatever
\* the email; on an existing profile it fails with the invalid-email error
\* when the email is not well-formed and returns true otherwise; it never
\* writes to the store.
C6_VerifyUserOutcomes ==
    [][\A p \in Procs :
          (Moved(p, "get") /\ op[p] = "verifyUser")
          => /\ pc'[p] = "done"
             /\ users' = users
             /\ result'[p].status =
                   IF ~users[uid[p]].exists THEN "User not found"
                   ELSE IF ~isValidEmail(email[p]) THEN "Invalid email address"
                   ELSE "true"]_vars

\* verifyUser with a malformed email on an absent profile reported the
\* missing profile.
C6_Witness ==
    /\ pc["p1"] = "done" /\ op["p1"] = "verifyUser"
    /\ ~userDoc["p1"].exists
    /\ ~isValidEmail(email["p1"])
    /\ result["p1"].status = "User not found"

----------------------------------------------------------------------------
(* Properties of the login handler and of the course handlers *)

\* C7: a successful login for body uid s at time t sets a token for s issued
\* at t, and whenever a handler verifies a token issued at t for s the
\* outcome is s before t + 1 hour and 'TokenExpired' from t + 1 hour on,
\* whatever logins and profile updates and deletions came in between.
C7_TokenValidForOneHour ==
    [][ /\ (loginResp = NoResponse /\ loginResp'.status = 200)
            => /\ loginResp'.setCookie.kind = "jwt"
               /\ loginResp'.setCookie.uid = loginReq'.uid
               /\ loginResp'.setCookie.iat = now
               /\ loginResp'.setCookie.key = secretKey
        /\ (hpc = "checkJwt" /\ hpc' # "checkJwt"
              /\ hreq.token.kind = "jwt" /\ hreq.token.key = secretKey)
            => /\ Len(hcalls') = 1
               /\ hcalls'[1].call = "checkJwt"
               /\ IF now < hreq.token.iat + 3600
                     THEN /\ hcalls'[1].outcome = "ok"
                          /\ hcalls'[1].subject = hreq.token.uid
                     ELSE /\ hcalls'[1].outcome = "TokenExpired"
                          /\ hcalls'[1].subject = Undefined ]_vars

\* A token issued for u1 at time 0 verified as u1 half an hour later, after
\* the client had logged in again and the profile u1 had been deleted.
C7_Witness ==
    /\ hpc = "read"
    /\ hreq.token.uid = "u1" /\ hreq.token.iat = 0
    /\ now = 1800
    /\ hcalls = <<[call |-> "checkJwt", outcome |-> "ok", subject |-> "u1"]>>
    /\ cookie["c1"] # hreq.token
    /\ pc["p1"] = "done" /\ op["p1"] = "deleteUser"
    /\ result["p1"].status = "User deleted successfully"

\* Whether a request carries every query parameter its handler requires.
HasRequiredParams(request) ==
    /\ request.facultyId \notin {UndefinedText, <<>>}
    /\ request.handler # "getAllForFaculty"
          => request.second \notin {UndefinedText, <<>>}

\* C8: for each course handler called with its required parameters, the
\* answer is 401 "Token has expired" exactly when the token is signed with
\* the server's key and past its expiry, and 401 "Unauthorized" exactly when
\* the token is missing, malformed or signed with another key; no other step
\* of a handler produces a 401.
C8_ExpiredAndInvalidDistinct ==
    [][ /\ (hpc = "checkJwt" /\ hpc' # "checkJwt")
            => /\ HasRequiredParams(hreq)
               /\ (hresp' = [status |-> 401, body |-> "Token has expired", result |-> {}])
                     <=> (/\ hreq.token.kind = "jwt"
                          /\ hreq.token.key = secretKey
                          /\ now >= hreq.token.exp)
               /\ (hresp' = [status |-> 401, body |-> "Unauthorized", result |-> {}])
                     <=> (\/ hreq.token.kind = "none"
                          \/ hreq.token.kind = "garbage"
                          \/ hreq.token.key # secretKey)
        /\ (hpc # "checkJwt" /\ hresp' # hresp) => hresp'.status # 401 ]_vars

\* A handler answered "Token has expired" to a token of the login handler.
C8_Witness ==
    /\ hpc = "done"
    /\ hreq.token.kind = "jwt" /\ hreq.token.key = secretKey
    /\ hresp = [status |-> 401, body |-> "Token has expired", result |-> {}]
    /\ hcalls = <<[call |-> "checkJwt", outcome |-> "TokenExpired", subject |-> Undefined]>>

\* C9: a course handler answers 200 only after checkJwt succeeded for the
\* request, reads the store only after that, and answers a request that has
\* its parameters and no token with 401 and no store read.
C9_NoReadWithoutVerifiedToken ==
    /\ \A i \in 1..Len(hcalls) :
          hcalls[i].call = "read"
              => /\ i = 2
                 /\ hcalls[1].call = "checkJwt" /\ hcalls[1].outcome = "ok"
    /\ hresp.status = 200
          => /\ Len(hcalls) = 2
             /\ hcalls[1].call = "checkJwt" /\ hcalls[1].outcome = "ok"
             /\ hcalls[2].call = "read"
             /\ checkJwt(hreq.token, hreq.token.iat).outcome = "ok"
    /\ (hpc = "done" /\ HasRequiredParams(hreq) /\ hreq.token = NoToken)
          => /\ hresp.status = 401
             /\ \A i \in 1..Len(hcalls) : hcalls[i].call # "read"

\* A request with its parameters and no token was answered 401 without a
\* store read.
C9_Witness ==
    /\ hpc = "done"
    /\ HasRequiredParams(hreq) /\ hreq.token = NoToken
    /\ hreq.handler = "getAllForProgram"
    /\ hresp.status = 401
    /\ hcalls = <<[call |-> "checkJwt", outcome |-> "Unauthorized", subject |-> Undefined]>>

\* The username/password pair of a Basic header: the text before the first
\* colon and the text after it; none without a colon.
BasicPair(credentials) ==
    IF \A i \in 1..Len(credentials) : credentials[i] # ":"
       THEN <<UndefinedText, UndefinedText>>
       ELSE LET i == CHOOSE j \in 1..Len(credentials) :
                        credentials[j] = ":" /\ \A k \in 1..(j - 1) : credentials[k] # ":"
            IN  <<SubSeq(credentials, 1, i - 1),
                  SubSeq(credentials, i + 1, Len(credentials))>>

\* C10: the login handler answers 405 when the method is not POST; else 401
\* when the header is missing, is not a Basic header or carries a pair other
\* than the admin pair; else 400 when the body has no uid; else 200 "Login
\* successful"; and it sets the token cookie in the 200 answer only.
C10_LoginOutcomes ==
    loginResp # NoResponse =>
        /\ loginResp.status =
              IF loginReq.method # "POST" THEN 405
              ELSE IF \/ loginReq.authorization.scheme # "Basic "
                      \/ BasicPair(loginReq.authorization.creds)
                            # <<adminUsername, adminPassword>>
                      THEN 401
              ELSE IF loginReq.uid \in {Undefined, ""} THEN 400
              ELSE 200
        /\ loginResp.status = 200 => loginResp.body = "Login successful"
        /\ loginResp.status = 200 <=> loginResp.setCookie # NoToken

\* Whether a Basic header's pair has a wrong username or a wrong password.
WrongPair(credentials) ==
    \/ BasicPair(credentials)[1] # adminUsername
    \/ BasicPair(credentials)[2] # adminPassword

\* C11: a POST login request with a Basic header whose username or password
\* is wrong is answered 401 "Unauthorized" with no cookie, with or without a
\* uid, and so is every request that differs from it only in carrying other
\* wrong credentials: the answers do not tell which field was wrong.
C11_WrongFieldNotRevealed ==
    ( /\ loginResp # NoResponse
      /\ loginReq.method = "POST"
      /\ loginReq.authorization.scheme = "Basic "
      /\ WrongPair(loginReq.authorization.creds) )
    => /\ loginResp = [status |-> 401, body |-> "Unauthorized", setCookie |-> NoToken]
       /\ \A other \in Credentials :
             WrongPair(other) =>
                login([loginReq EXCEPT !.authorization.creds = other], now) = loginResp

\* The message a handler sends when its second parameter is missing.
SecondMissingMessage(handler) ==
    CASE handler = "getOneById" -> "No course sent"
      [] handler = "getAllForProgram" -> "No program sent"
      [] handler = "getAllForBranch" -> "No branch sent"
      [] OTHER -> ""

\* C12: a course request that lacks a required query parameter is answered
\* 400 whatever its token is, with no checkJwt call and no store read, and
\* the missing facultyId is reported before a missing second parameter.
C12_MissingParamAnswers400 ==
    (hpc # "idle" /\ ~HasRequiredParams(hreq))
    => /\ hpc = "done"
       /\ hresp.status = 400
       /\ hresp.result = {}
       /\ hcalls = <<>>
       /\ hresp.body = IF hreq.facultyId \in {UndefinedText, <<>>}
                          THEN "No faculty ID sent"
                          ELSE SecondMissingMessage(hreq.handler)

\* A request with a valid token of the login handler and neither facultyId
\* nor branchId was answered 400 for the facultyId, with no call made.
C12_Witness ==
    /\ hpc = "done"
    /\ hreq.handler = "getAllForBranch"
    /\ hreq.facultyId = UndefinedText /\ hreq.second = UndefinedText
    /\ hreq.token.kind = "jwt" /\ hreq.token.key = secretKey /\ now < hreq.token.exp
    /\ hresp = [status |-> 400, body |-> "No faculty ID sent", result |-> {}]
    /\ hcalls = <<>>

\* C13: in getAllForProgram and getAllForBranch a programId or branchId that
\* is present and is no number is never handed to the filtered store read
\* as NaN, and its request is not answered 200.
C13_NaNNeverFiltered ==
    ( /\ hreq.handler \in {"getAllForProgram", "getAllForBranch"}
      /\ hreq.second \notin {UndefinedText, <<>>}
      /\ Number(hreq.second) = NaN )
    => /\ \A i \in 1..Len(hcalls) : hcalls[i].call # "read"
       /\ hresp.status # 200

\* C14: under any interleaving of the steps of saveUser and updateUser calls
\* on one uid, the write of a saveUser leaves a profile that exists at the
\* moment of the write as it is: it neither resets a role an updateUser
\* stored nor drops a field it added.
C14_SaveUserWriteKeepsContent ==
    [][\A p \in Procs :
          ( /\ Moved(p, "write")
            /\ op[p] = "saveUser"
            /\ users[uid[p]].exists )
          => users'[uid[p]] = users[uid[p]]]_vars

\* What useBranches should show for a selection: the result of its query,
\* or no branch when a part of the selection is missing.
ExpectedBranches(sel) == IF Complete(sel) THEN branchesList(sel) ELSE {}

\* C15: useBranches settles on the latest selection.  Once no query is in
\* flight, and unless the query of the latest selection failed, loading is
\* false and branches is the result for the selection now rendered (empty
\* when a part of it is missing); and a query of an earlier selection that
\* resolves after a later run of the effect has finished leaves branches as
\* it is.
C15_SettlesOnLatestSelection ==
    /\ []( ( /\ runs # <<>>
             /\ \A i \in 1..Len(runs) : runs[i].state # "pending"
             /\ runs[Len(runs)].state # "rejected" )
           => /\ loading = FALSE
              /\ branches = ExpectedBranches(selection) )
    /\ [][\A i \in 1..Len(runs) :
             ( /\ runs[i].state = "pending"
               /\ runs'[i].state = "fulfilled"
               /\ \E j \in (i + 1)..Len(runs) : runs[j].state \in {"fulfilled", "none"} )
             => branches' = branches]_vars

====
